---- MODULE Spec2Model ----
(***************************************************************************)
(* Email-candidate generation and verification engine of                   *)
(* src/dashboard.py (class LinkedInDashboard): the candidate generator,    *)
(* the syntax / MX / SMTP cascade (verify_email), the Kickbox and          *)
(* BrightData backends, the batch runner (generate_email_permutations)     *)
(* and the obfuscation matcher (check_for_email_variants).                 *)
(*                                                                         *)
(* Strings are sequences of one-character strings, so that lower(),        *)
(* replace(), format() and split() are computed, not assumed.              *)
(***************************************************************************)
EXTENDS Integers, Sequences, FiniteSets, TLC

(***************************************************************************)
(* Bounds of the model.                                                    *)
(***************************************************************************)
\* longest first / last name drawn for the generator
MaxNameLen == 2
\* most non-nominal answers (errors, rejections) the remote services give in one batch run
MaxFaults == 1
\* most fragments a text given to check_for_email_variants is made of
MaxFragments == 3
MaxRuns == 5

(***************************************************************************)
(* Strings.                                                                *)
(***************************************************************************)
\* str.lower() on one character of the model's alphabet
LowerChar(c) ==
    CASE c = "A" -> "a"
      [] c = "B" -> "b"
      [] c = "J" -> "j"
      [] c = "D" -> "d"
      [] c = "X" -> "x"
      [] c = "W" -> "w"
      [] c = "T" -> "t"
      [] c = "C" -> "c"
      [] OTHER -> c

\* str.lower()
Lower(s) == [i \in 1..Len(s) |-> LowerChar(s[i])]

WWW == <<"w", "w", "w", ".">>

Range(s) == {s[i] : i \in DOMAIN s}

StartsWith(s, p) == Len(s) >= Len(p) /\ SubSeq(s, 1, Len(p)) = p

\* domain.replace('www.', ''): every non-overlapping occurrence, left to right
RECURSIVE ReplaceWww(_)
ReplaceWww(s) ==
    IF s = <<>> THEN <<>>
    ELSE IF StartsWith(s, WWW) THEN ReplaceWww(SubSeq(s, Len(WWW) + 1, Len(s)))
    ELSE <<Head(s)>> \o ReplaceWww(Tail(s))

\* index of the first "@" of s, 0 when there is none
RECURSIVE FindAt(_, _)
FindAt(s, i) ==
    IF i > Len(s) THEN 0
    ELSE IF s[i] = "@" THEN i
    ELSE FindAt(s, i + 1)

\* email.split('@')[1]: the text between the first "@" and the next one (or the end)
SplitDomain(email) ==
    LET a == FindAt(email, 1)
        rest == SubSeq(email, a + 1, Len(email))
        b == FindAt(rest, 1)
    IN  IF b = 0 THEN rest ELSE SubSeq(rest, 1, b - 1)

(***************************************************************************)
(* Candidate generator (generate_email_permutations, lines 435-472).       *)
(***************************************************************************)
\* the pattern list with the second and third templates swapped
patterns_swapped ==
    << <<"{first}", "{last}", "@", "{domain}">>,
       <<"{first}", ".", "{last}", "@", "{domain}">>,
       <<"{f}", "{last}", "@", "{domain}">>,
       <<"{first}", "_", "{last}", "@", "{domain}">>,
       <<"{last}", "{first}", "@", "{domain}">>,
       <<"{first}", "{l}", "@", "{domain}">>,
       <<"{f}", ".", "{last}", "@", "{domain}">>,
       <<"{last}", ".", "{first}", "@", "{domain}">>,
       <<"{l}", "{first}", "@", "{domain}">>,
       <<"{last}", "{f}", "@", "{domain}">>,
       <<"{first}", ".", "{l}", "@", "{domain}">>,
       <<"{last}", ".", "{f}", "@", "{domain}">> >>

\* patterns = [...] : each template a sequence of placeholders and literal characters
patterns ==
    << <<"{first}", "{last}", "@", "{domain}">>,
       <<"{f}", "{last}", "@", "{domain}">>,
       <<"{first}", ".", "{last}", "@", "{domain}">>,
       <<"{first}", "_", "{last}", "@", "{domain}">>,
       <<"{last}", "{first}", "@", "{domain}">>,
       <<"{first}", "{l}", "@", "{domain}">>,
       <<"{f}", ".", "{last}", "@", "{domain}">>,
       <<"{last}", ".", "{first}", "@", "{domain}">>,
       <<"{l}", "{first}", "@", "{domain}">>,
       <<"{last}", "{f}", "@", "{domain}">>,
       <<"{first}", ".", "{l}", "@", "{domain}">>,
       <<"{last}", ".", "{f}", "@", "{domain}">> >>

\* pattern.format(first=..., last=..., f=..., l=..., domain=...)
RECURSIVE Format(_, _)
Format(pattern, kw) ==
    IF pattern = <<>> THEN <<>>
    ELSE LET t == Head(pattern)
             piece == IF t \in DOMAIN kw THEN kw[t] ELSE <<t>>
         IN  piece \o Format(Tail(pattern), kw)

\* the keyword arguments of format(): lines 460-463 and 441
FormatArgs(first, last, dom) ==
    LET first_lower == Lower(first)
        last_lower == Lower(last)
    IN  [x \in {"{first}", "{last}", "{f}", "{l}", "{domain}"} |->
            CASE x = "{first}" -> first_lower
              [] x = "{last}" -> last_lower
              [] x = "{f}" -> <<first_lower[1]>>
              [] x = "{l}" -> <<last_lower[1]>>
              [] x = "{domain}" -> ReplaceWww(dom)]

\* email_patterns = [pattern.format(...) for pattern in patterns]
EmailPatterns(first, last, dom) ==
    [i \in 1..Len(patterns) |-> Format(patterns[i], FormatArgs(first, last, dom))]

(***************************************************************************)
(* State.                                                                  *)
(***************************************************************************)
VARIABLES
    first_name,         \* argument of generate_email_permutations
    last_name,          \* argument
    domain,             \* argument
    use_kickbox,        \* argument
    use_brightdata,     \* argument
    has_key,            \* whether st.secrets holds the API key of the selected backend
    pc,                 \* position of the calling thread
    email_patterns,     \* the candidates, in generation order
    idx,                \* loop position of the calling thread (next candidate / future)
    tpc,                \* per candidate: position of its verification
    tres,               \* per candidate: the verification result its call (future) holds
    calls,              \* per candidate: the stages called, the DNS queries and HTTP requests made,
                        \* and the place where an exception was raised ("none": nowhere)
    smtp_log,           \* commands of the SMTP session of a direct verify_email call
    dns_log,            \* the MX lookups of a direct verify_email call, with their answers
    verified_patterns,  \* the list of reports being built
    ret,                \* the returned list
    text,               \* argument of check_for_email_variants
    variant,            \* what check_for_email_variants returned
    faults,             \* non-nominal answers the remote services have given so far
    fault,               \* the non-nominal answer met in this run, if any (<<>>: none yet)
    selected_profiles,  \* st.session_state.selected_profiles
    search_results,     \* st.session_state.search_results
    progress,           \* value shown by the progress bar of the batch search, num/den
    upc,                \* position of the script run in the batch DeepSearch tab
    search_idx,         \* position in selected_profiles of the profile being searched
    search_log,         \* what search_email gave for each profile of the current batch search
    clicked,            \* the button the last script run handled
    rpc,                \* position of LinkedInDashboard.run
    temp_db_path,       \* temp_db_path of the two dashboard instances, 0 for None
    temp_files,         \* the temporary files that exist
    decrypts,           \* decrypt_database calls of the two dashboard instances
    runs                \* script runs started

\* the variables of the verification engine
engine_vars == <<first_name, last_name, domain, use_kickbox, use_brightdata, has_key, pc,
                 email_patterns, idx, tpc, tres, calls, smtp_log, dns_log, verified_patterns,
                 ret, text, variant, faults, fault>>

\* st.session_state of the batch DeepSearch tab and the script run working on it
session_vars == <<selected_profiles, search_results, progress, upc, search_idx, search_log,
                  clicked>>

\* the dashboard instances of a script run and the temporary files on disk
run_vars == <<rpc, temp_db_path, temp_files, decrypts, runs>>

vars == <<engine_vars, session_vars, run_vars>>

\* lines 729-733: both lists of the session state start empty; no script run is
\* working on them
SessionInit ==
    /\ selected_profiles = <<>>
    /\ search_results = <<>>
    /\ progress = [num |-> 0, den |-> 1]
    /\ upc = "idle"
    /\ search_idx = 0
    /\ search_log = <<>>
    /\ clicked = "none"

\* no script has run: no dashboard instance, no temporary file
RunInit ==
    /\ rpc = "idle"
    /\ temp_db_path = [linkedin |-> 0, lta |-> 0]
    /\ temp_files = {}
    /\ decrypts = [linkedin |-> 0, lta |-> 0]
    /\ runs = 0

\* a wider pool
max_workers_wider == 2 + 1

\* ThreadPoolExecutor(max_workers=2)
max_workers == 2

N == Len(email_patterns)
Tasks == 1..N

\* positions in which a candidate's verification is running
RunningPcs == {"running", "http", "blocked"}
InFlight == {t \in Tasks : tpc[t] \in RunningPcs}
Finished(t) == tpc[t] \in {"done", "raised"}

\* requests: the HTTP requests made, each with the answer it got
NoCalls == [stages |-> <<>>, dns |-> 0, http |-> 0, exc |-> "none", requests |-> <<>>]

(***************************************************************************)
(* Answers of the remote services (the email_validator library, DNS, the   *)
(* SMTP server, the HTTP APIs): the inputs of the verification stages.     *)
(***************************************************************************)
\* validate_email(email): returns, raises EmailNotValidError, or raises something else;
\* an address without "@" is never valid
SyntaxOutcomes(email) ==
    IF FindAt(email, 1) = 0 THEN {"invalid"} ELSE {"valid", "invalid", "raise"}

\* dns.resolver.resolve(domain, 'MX'): records, an empty answer, or an exception
MxOutcomes == {"records", "empty", "raise"}

\* the records of an MX answer, in the order the resolver returns them
MxAnswers ==
    {<<[preference |-> 10, exchange |-> "mx1"]>>,
     <<[preference |-> 10, exchange |-> "mx1"], [preference |-> 20, exchange |-> "mx2"]>>,
     <<[preference |-> 20, exchange |-> "mx2"], [preference |-> 10, exchange |-> "mx1"]>>}

OneMx == <<[preference |-> 10, exchange |-> "mx1"]>>

\* response codes of RCPT TO
RcptCodes == {250, 251, 450, 550, 552, 553}

\* what the SMTP side does in one probe: the step that raises ("none": no step) and
\* the RCPT code (read only when RCPT TO is answered)
SmtpScripts ==
    {[fail |-> "none", code |-> c] : c \in RcptCodes}
        \cup {[fail |-> f, code |-> 250] :
                f \in {"resolve", "connect", "ehlo", "mail", "rcpt", "quit"}}

NominalScript == [fail |-> "none", code |-> 250]

\* the answers one verify_email call can meet; a stage that is not reached has its
\* nominal answer
CascadeAnswers(email) ==
    {[syntax |-> o, mx |-> "records", smtp |-> NominalScript] :
        o \in SyntaxOutcomes(email) \ {"valid"}}
    \cup {[syntax |-> "valid", mx |-> o, smtp |-> NominalScript] :
        o \in IF "valid" \in SyntaxOutcomes(email) THEN {"empty", "raise"} ELSE {}}
    \cup {[syntax |-> "valid", mx |-> "records", smtp |-> s] :
        s \in IF "valid" \in SyntaxOutcomes(email) THEN SmtpScripts ELSE {}}

\* the answers met by the calls of a batch: one RCPT code for each of the results
\* True, 'Inconclusive' and False, and an exception before and after the session
\* is opened
BatchAnswers(email) ==
    {a \in CascadeAnswers(email) :
        a.smtp.code \in {250, 450, 550} /\ a.smtp.fail \in {"none", "connect", "rcpt"}}

\* nominal answers cost nothing; every other answer is one fault
CascadeCost(a) ==
    IF a.syntax = "valid" /\ a.mx = "records" /\ a.smtp = NominalScript THEN 0 ELSE 1
\* the answer of an HTTP API when all is well: status 200 and nothing to report
HttpNominal(body) == [kind |-> "response", status |-> 200, body |-> body]
\* an HTTP request that raised instead of returning a response
HttpRaise == [kind |-> "raise", status |-> 0, body |-> "none"]
HttpCost(o) == IF o \in {HttpNominal("deliverable"), HttpNominal("nomatch")} THEN 0 ELSE 1

\* the remote side may give answer a: a run meets at most MaxFaults non-nominal
\* answers, all of them the same answer (one cause of failure per run)
Meets(a, cost) ==
    /\ faults + cost <= MaxFaults
    /\ cost > 0 => fault \in {<<>>, <<a>>}
    /\ faults' = faults + cost
    /\ fault' = IF cost > 0 THEN <<a>> ELSE fault

(***************************************************************************)
(* The verification stages as functions of the remote side's answer.       *)
(***************************************************************************)
\* verify_email_syntax (lines 115-124): only EmailNotValidError is caught
VerifyEmailSyntax(outcome) == outcome = "valid"

\* verify_mx_record (lines 126-139): len(mx_records) > 0, any exception gives False
VerifyMxRecord(outcome) ==
    CASE outcome = "records" -> TRUE
      [] outcome = "empty" -> FALSE
      [] outcome = "raise" -> FALSE

\* one SMTP command as sent to the server, with the reply the call got: connect
\* names the host str(mx_records[0].exchange) of line 148, RCPT TO carries the
\* address and its reply is the code read at line 166; -1 stands for no reply (the
\* step raised), 0 for a reply the code does not read
SmtpCommand(step, email, script) ==
    [cmd |-> step,
     arg |-> IF step = "rcpt" THEN email
             ELSE IF step = "connect" THEN <<script.mx_records[1].exchange>>
             ELSE <<>>,
     reply |-> IF script.fail = step THEN -1
               ELSE IF step = "rcpt" THEN script.code
               ELSE 0]

\* the steps in another order: RCPT TO before MAIL FROM
SmtpSteps_rcpt_first == <<"resolve", "connect", "ehlo", "rcpt", "mail", "quit">>

\* the steps of verify_smtp that may raise, in program order (lines 147-167)
SmtpSteps == <<"resolve", "connect", "ehlo", "mail", "rcpt", "quit">>

\* the commands verify_smtp issues from step i on (lines 147-167): the steps run in
\* program order and the first one that raises ends the try block; the MX
\* resolution at line 147 is no SMTP command
RECURSIVE SmtpRun(_, _, _)
SmtpRun(i, email, script) ==
    IF i > Len(SmtpSteps) THEN <<>>
    ELSE LET step == SmtpSteps[i]
             sent == IF step = "resolve" THEN <<>> ELSE <<SmtpCommand(step, email, script)>>
         IN  IF script.fail = step THEN sent
             ELSE sent \o SmtpRun(i + 1, email, script)

\* the mapping without the 553 case
RcptResult_no_553(code) ==
    IF code = 250 THEN "True"
    ELSE IF code = 550 THEN "False"
    ELSE "Inconclusive"

\* the RCPT code mapping of verify_smtp (lines 174-182)
RcptResult(code) ==
    IF code = 250 THEN "True"
    ELSE IF code \in {550, 553} THEN "False"
    ELSE "Inconclusive"

\* verify_smtp without its except clause taking effect: the code is mapped anyway
VerifySmtp_no_except(email, script) == RcptResult(script.code)

\* verify_smtp (lines 141-186): the value returned
VerifySmtp(email, script) ==
    IF script.fail # "none" THEN "Error" ELSE RcptResult(script.code)

\* the results starting with smtp marked as failed
InitialResults_smtp_error ==
    [tag |-> "results", syntax |-> FALSE, mx_record |-> FALSE, smtp |-> "Error"]

\* results = {...} at the start of verify_email (lines 193-197)
InitialResults ==
    [tag |-> "results", syntax |-> FALSE, mx_record |-> FALSE, smtp |-> "Not attempted"]

\* line 201 without its return
ReturnsAfterSyntax_never(results) == FALSE

\* line 201: if not results['syntax']: return results
ReturnsAfterSyntax(results) == ~results.syntax

\* line 212 without its return
ReturnsAfterMx_never(results) == FALSE

\* line 212: if not results['mx_record']: return results
ReturnsAfterMx(results) == ~results.mx_record

\* verify_email (lines 188-222) under the answers a: whether it raised, the results
\* it returned, the stages it called in order, the number of DNS queries it made
\* (one by verify_mx_record, one by verify_smtp), the place where an exception was
\* raised, the commands of its SMTP session and its MX lookups. The answers a hold
\* the records of the two MX answers: a.mx_records (line 130) and
\* a.smtp.mx_records (line 147)
VerifyEmail(email, a) ==
    LET start == [raised |-> FALSE, results |-> InitialResults, stages |-> <<"syntax">>,
                  dns |-> 0, exc |-> "none", session |-> <<>>, lookups |-> <<>>]
        s1 == [start EXCEPT !.results.syntax = VerifyEmailSyntax(a.syntax)]
        s2 == [s1 EXCEPT !.results.mx_record = VerifyMxRecord(a.mx),
                         !.stages = Append(@, "mx"),
                         !.dns = @ + 1,
                         !.exc = IF a.mx = "raise" THEN "mx" ELSE "none",
                         !.lookups = Append(@,
                             [by |-> "verify_mx_record", outcome |-> a.mx,
                              records |-> IF a.mx = "records" THEN a.mx_records ELSE <<>>])]
        s3 == [s2 EXCEPT !.results.smtp = VerifySmtp(email, a.smtp),
                         !.stages = Append(@, "smtp"),
                         !.dns = @ + 1,
                         !.exc = IF a.smtp.fail # "none" THEN "smtp" ELSE @,
                         !.session = SmtpRun(1, email, a.smtp),
                         !.lookups = Append(@,
                             IF a.smtp.fail = "resolve"
                             THEN [by |-> "verify_smtp", outcome |-> "raise", records |-> <<>>]
                             ELSE [by |-> "verify_smtp", outcome |-> "records",
                                   records |-> a.smtp.mx_records])]
    IN  IF a.syntax = "raise" THEN [start EXCEPT !.raised = TRUE, !.exc = "syntax"]
        ELSE IF ReturnsAfterSyntax(s1.results) THEN s1
        ELSE IF ReturnsAfterMx(s2.results) THEN s2
        ELSE s3

\* verify_email keeping its results in one dict shared by all the calls
RunVerifyEmail_shared_results(t, keep_session) ==
    /\ tpc[t] = "running"
    /\ \E a \in IF keep_session THEN CascadeAnswers(email_patterns[t])
                 ELSE BatchAnswers(email_patterns[t]),
          m \in IF keep_session THEN MxAnswers \X MxAnswers ELSE {<<OneMx, OneMx>>} :
        LET r == VerifyEmail(email_patterns[t],
                             [syntax |-> a.syntax, mx |-> a.mx, mx_records |-> m[1],
                              smtp |-> [fail |-> a.smtp.fail, code |-> a.smtp.code,
                                        mx_records |-> m[2]]])
        IN  /\ faults + CascadeCost(a) <= MaxFaults
            /\ Meets([exc |-> r.exc, results |-> r.results], CascadeCost(a))
            /\ tpc' = [tpc EXCEPT ![t] = IF r.raised THEN "raised" ELSE "done"]
            /\ tres' = [u \in DOMAIN tres |->
                           IF r.raised
                           THEN (IF u = t THEN [tag |-> "exception", detail |-> r.exc]
                                 ELSE tres[u])
                           ELSE (IF u = t \/ tres[u].tag = "results" THEN r.results
                                 ELSE tres[u])]
            /\ calls' = [calls EXCEPT ![t] =
                            [stages |-> r.stages, dns |-> r.dns, http |-> 0, exc |-> r.exc,
                             requests |-> <<>>]]
            /\ smtp_log' = IF keep_session THEN r.session ELSE smtp_log
            /\ dns_log' = IF keep_session THEN r.lookups ELSE dns_log
    /\ UNCHANGED <<text, variant, session_vars, run_vars, first_name, last_name, domain, use_kickbox, use_brightdata, has_key, pc,
                   email_patterns, idx, verified_patterns, ret>>

\* verify_email runs for candidate t to its end: the call's value (or its exception)
\* is what future t holds. The SMTP session is an object of the call; its commands
\* and its MX lookups are kept for a direct call only (keep_session), where the
\* two MX answers are any two; in a batch both are the one-record answer and the
\* answers are those of BatchAnswers
RunVerifyEmail(t, keep_session) ==
    /\ tpc[t] = "running"
    /\ \E a \in IF keep_session THEN CascadeAnswers(email_patterns[t])
                 ELSE BatchAnswers(email_patterns[t]),
          m \in IF keep_session THEN MxAnswers \X MxAnswers ELSE {<<OneMx, OneMx>>} :
        LET r == VerifyEmail(email_patterns[t],
                             [syntax |-> a.syntax, mx |-> a.mx, mx_records |-> m[1],
                              smtp |-> [fail |-> a.smtp.fail, code |-> a.smtp.code,
                                        mx_records |-> m[2]]])
        IN  /\ faults + CascadeCost(a) <= MaxFaults
            /\ Meets([exc |-> r.exc, results |-> r.results], CascadeCost(a))
            /\ tpc' = [tpc EXCEPT ![t] = IF r.raised THEN "raised" ELSE "done"]
            /\ tres' = [tres EXCEPT ![t] =
                           IF r.raised THEN [tag |-> "exception", detail |-> r.exc]
                           ELSE r.results]
            /\ calls' = [calls EXCEPT ![t] =
                            [stages |-> r.stages, dns |-> r.dns, http |-> 0, exc |-> r.exc,
                             requests |-> <<>>]]
            /\ smtp_log' = IF keep_session THEN r.session ELSE smtp_log
            /\ dns_log' = IF keep_session THEN r.lookups ELSE dns_log
    /\ UNCHANGED <<text, variant, session_vars, run_vars, first_name, last_name, domain, use_kickbox, use_brightdata, has_key, pc,
                   email_patterns, idx, verified_patterns, ret>>

\* a pool thread runs the call of candidate t
TaskRun(t) == RunVerifyEmail(t, FALSE)

\* verify_email called directly on one address
VerifyEmailCall == RunVerifyEmail(1, TRUE)

(***************************************************************************)
(* A single call of verify_email on any address.                           *)
(***************************************************************************)
\* addresses verify_email is called on
CascadeLocals == {<<"j">>, <<"j", ".", "d">>, <<"J", "d">>, <<>>}
CascadeDomains == {<<"x", ".", "c">>, <<"x">>, <<"X", ".", "c">>}
CascadeEmails ==
    {l \o <<"@">> \o d : l \in CascadeLocals, d \in CascadeDomains}
        \cup {<<"n", "o", "t">>, <<"j", "@", "x", "@", "c">>}

InitCascade ==
    /\ first_name = <<>> /\ last_name = <<>> /\ domain = <<>>
    /\ use_kickbox = FALSE /\ use_brightdata = FALSE /\ has_key = TRUE
    /\ pc = "verify_email"
    /\ email_patterns \in {<<e>> : e \in CascadeEmails}
    /\ idx = 1
    /\ tpc = <<"running">>
    /\ tres = <<[tag |-> "none"]>>
    /\ calls = <<NoCalls>>
    /\ smtp_log = <<>>
    /\ dns_log = <<>>
    /\ verified_patterns = <<>>
    /\ ret = <<>>
    /\ text = <<>>
    /\ variant = [tag |-> "none"]
    /\ faults = 0
    /\ fault = <<>>
    /\ SessionInit
    /\ RunInit

NextCascade == VerifyEmailCall

SpecCascade == InitCascade /\ [][NextCascade]_vars

(***************************************************************************)
(* generate_email_permutations (lines 435-520).                            *)
(***************************************************************************)
\* the branch taken at lines 477 / 489 / 499
Backend ==
    IF use_brightdata THEN "brightdata"
    ELSE IF use_kickbox THEN "kickbox"
    ELSE "submit"

\* line 437 without the test of the domain
EmptyInput_names_only == first_name = <<>> \/ last_name = <<>>

\* line 437: if not first_name or not last_name or not domain
EmptyInput == first_name = <<>> \/ last_name = <<>> \/ domain = <<>>

\* lines 437-475: the empty-input return, else the candidates and an empty report list
Generate ==
    /\ pc = "call"
    /\ IF EmptyInput
       THEN /\ pc' = "returned"
            /\ ret' = <<>>
            /\ UNCHANGED <<email_patterns, tpc, tres, calls>>
       ELSE /\ email_patterns' = EmailPatterns(first_name, last_name, domain)
            /\ tpc' = [i \in 1..Len(patterns) |-> "new"]
            /\ tres' = [i \in 1..Len(patterns) |-> [tag |-> "none"]]
            /\ calls' = [i \in 1..Len(patterns) |-> NoCalls]
            /\ pc' = Backend
            /\ UNCHANGED ret
    /\ UNCHANGED <<text, variant, session_vars, run_vars, first_name, last_name, domain, use_kickbox, use_brightdata, has_key,
                   idx, smtp_log, dns_log, verified_patterns, faults, fault>>

\* lines 502-503: executor.submit(self.verify_email, email) for every candidate, in
\* generation order
Submit ==
    /\ pc = "submit"
    /\ tpc' = [i \in Tasks |-> "queued"]
    /\ pc' = "collect"
    /\ idx' = 1
    /\ UNCHANGED <<text, variant, session_vars, run_vars, first_name, last_name, domain, use_kickbox, use_brightdata, has_key,
                   email_patterns, tres, calls, smtp_log, dns_log, verified_patterns, ret,
                   faults, fault>>

\* a pool thread takes the oldest queued call and enters verify_email; the pool
\* has max_workers threads, each running one call at a time
WorkerTake ==
    /\ Cardinality(InFlight) < max_workers
    /\ \E t \in Tasks :
        /\ tpc[t] = "queued"
        /\ \A u \in 1..(t - 1) : tpc[u] # "queued"
        /\ tpc' = [tpc EXCEPT ![t] = "running"]
    /\ UNCHANGED <<text, variant, session_vars, run_vars, first_name, last_name, domain, use_kickbox, use_brightdata, has_key, pc,
                   email_patterns, idx, tres, calls, smtp_log, dns_log, verified_patterns, ret, faults, fault>>

\* the report appended for future t (lines 508-518): the results, or
\* {'error': str(e)} for the exception e the call raised (its text stands for the
\* place it was raised at)
CollectedReport(t) ==
    [email |-> email_patterns[t],
     verification |-> IF tpc[t] = "raised"
                      THEN [tag |-> "error", error |-> tres[t].detail]
                      ELSE tres[t]]

\* the loop without its except clause: the exception of a future leaves the function
Collect_no_except ==
    /\ pc = "collect"
    /\ Finished(idx)
    /\ IF tpc[idx] = "raised"
       THEN /\ pc' = "returned"
            /\ UNCHANGED <<verified_patterns, ret, idx>>
       ELSE /\ verified_patterns' = Append(verified_patterns, CollectedReport(idx))
            /\ IF idx = N
               THEN pc' = "returned" /\ ret' = verified_patterns' /\ idx' = idx
               ELSE pc' = pc /\ ret' = ret /\ idx' = idx + 1
    /\ UNCHANGED <<text, variant, session_vars, run_vars, first_name, last_name, domain, use_kickbox, use_brightdata, has_key,
                   email_patterns, tpc, tres, calls, smtp_log, dns_log, faults, fault>>

\* the loop taking the futures in the order they complete (as_completed)
Collect_as_completed ==
    /\ pc = "collect"
    /\ \E t \in Tasks :
        /\ Finished(t)
        /\ verified_patterns' = Append(verified_patterns, CollectedReport(t))
        /\ tpc' = [tpc EXCEPT ![t] = "collected"]
    /\ IF idx = N
       THEN pc' = "returned" /\ ret' = verified_patterns' /\ idx' = idx
       ELSE pc' = pc /\ ret' = ret /\ idx' = idx + 1
    /\ UNCHANGED <<text, variant, session_vars, run_vars, first_name, last_name, domain, use_kickbox, use_brightdata,
                   has_key, email_patterns, tres, calls, smtp_log, dns_log, faults, fault>>

\* lines 506-520: future.result() of the next future, in submission order; after the
\* last one the pool is shut down (all its calls are finished) and the list returned
Collect ==
    /\ pc = "collect"
    /\ Finished(idx)
    /\ verified_patterns' = Append(verified_patterns, CollectedReport(idx))
    /\ IF idx = N
       THEN pc' = "returned" /\ ret' = verified_patterns' /\ idx' = idx
       ELSE pc' = pc /\ ret' = ret /\ idx' = idx + 1
    /\ UNCHANGED <<text, variant, session_vars, run_vars, first_name, last_name, domain, use_kickbox, use_brightdata, has_key,
                   email_patterns, tpc, tres, calls, smtp_log, dns_log, faults, fault>>

\* lines 479-480 / 491-492: the loop calls the backend for the next candidate and waits
SeqCall ==
    /\ pc \in {"kickbox", "brightdata"}
    /\ tpc[idx] = "new"
    /\ tpc' = [tpc EXCEPT ![idx] = "http"]
    /\ UNCHANGED <<text, variant, session_vars, run_vars, first_name, last_name, domain, use_kickbox, use_brightdata, has_key, pc,
                   email_patterns, idx, tres, calls, smtp_log, dns_log, verified_patterns, ret, faults, fault>>

\* the loop calling the backend again for a candidate whose call gave None
SeqAppend_retry(v, requests, raised) ==
    /\ calls' = [calls EXCEPT ![idx].http = @ + Len(requests),
                              ![idx].requests = @ \o requests,
                              ![idx].exc = IF raised THEN "http" ELSE "none"]
    /\ IF v.value = "None"
       THEN /\ tpc' = [tpc EXCEPT ![idx] = "new"]
            /\ UNCHANGED <<tres, verified_patterns, pc, ret, idx>>
       ELSE /\ tres' = [tres EXCEPT ![idx] = v]
            /\ tpc' = [tpc EXCEPT ![idx] = "done"]
            /\ verified_patterns' =
                   Append(verified_patterns, [email |-> email_patterns[idx], verification |-> v])
            /\ IF idx = N
               THEN pc' = "returned" /\ ret' = verified_patterns' /\ idx' = idx
               ELSE pc' = pc /\ ret' = ret /\ idx' = idx + 1

\* the loop appends the report of candidate idx and moves on; after the last, returns
SeqAppend(v, requests, raised) ==
    /\ tres' = [tres EXCEPT ![idx] = v]
    /\ tpc' = [tpc EXCEPT ![idx] = "done"]
    /\ calls' = [calls EXCEPT ![idx].http = @ + Len(requests),
                              ![idx].requests = @ \o requests,
                              ![idx].exc = IF raised THEN "http" ELSE "none"]
    /\ verified_patterns' =
           Append(verified_patterns, [email |-> email_patterns[idx], verification |-> v])
    /\ IF idx = N
       THEN pc' = "returned" /\ ret' = verified_patterns' /\ idx' = idx
       ELSE pc' = pc /\ ret' = ret /\ idx' = idx + 1

\* the values of 'result' in a Kickbox verdict
KickboxResults == {"deliverable", "undeliverable", "risky", "unknown"}

\* answers of the Kickbox request (line 242): requests.get raises, or returns a
\* response with a status and a body. The body is a verdict object, an error object
\* (a JSON object without 'result'), JSON that is no object, or no JSON at all
KickboxOutcomes ==
    {[kind |-> "response", status |-> 200, body |-> b] :
        b \in KickboxResults \cup {"not_json", "not_object"}}
    \cup {[kind |-> "response", status |-> st, body |-> b] :
            st \in {403, 500}, b \in {"error_object", "not_json"}}
    \cup {HttpRaise}

\* lines 242-259: the places where the try block raises: requests.get, response.json()
\* on a body that is no JSON, result.get on a value that is no object
KickboxRaises(o) == o.kind = "raise" \/ o.body \in {"not_json", "not_object"}

\* verify_email_kickbox (lines 224-264): None without a key or on any exception, else
\* the record built from the body, here its 'result' ("null": the body has none);
\* the status of the response is not read
VerifyEmailKickbox(o) ==
    IF ~has_key \/ KickboxRaises(o) THEN "None"
    ELSE IF o.body \in KickboxResults THEN o.body
    ELSE "null"

\* lines 491-498
KickboxReturn ==
    /\ pc = "kickbox"
    /\ tpc[idx] = "http"
    /\ \E o \in KickboxOutcomes :
        /\ has_key \/ o = HttpNominal("deliverable")
        /\ Meets(o, HttpCost(o))
        /\ SeqAppend([tag |-> "kickbox", value |-> VerifyEmailKickbox(o)],
                     IF has_key THEN <<[query |-> "verify", answer |-> o]>> ELSE <<>>,
                     has_key /\ KickboxRaises(o))
    /\ UNCHANGED <<text, variant, session_vars, run_vars, first_name, last_name, domain, use_kickbox, use_brightdata, has_key,
                   email_patterns, smtp_log, dns_log>>

\* queries = [...] (lines 333-336): the exact email, then the full name with the email
queries == <<"exact_email", "name_email">>

\* answers of one BrightData search request (line 358): the request raises, or
\* returns a response with a status and a page: with a result block that holds the
\* email ("match"), with result blocks that do not ("nomatch"), without result
\* blocks ("no_results"), with the same block holding the email twice
\* ("match_twice"), with two different blocks holding it ("matches"), or with a
\* block that holds the email inside a disclaimer such as 'No results found for
\* "j@x.c"' ("disclaimer")
QueryOutcomes ==
    {[kind |-> "response", status |-> 200, body |-> b] :
        b \in {"nomatch", "match", "no_results", "match_twice", "matches", "disclaimer"}}
    \cup {[kind |-> "response", status |-> 206, body |-> b] : b \in {"nomatch", "match"}}
    \cup {[kind |-> "response", status |-> 500, body |-> "nomatch"]}
    \cup {HttpRaise}

\* line 360: if response.status_code == 200
Parsed(o) == o.status = 200

\* the div.g blocks of a page (line 368): whether the text of the block holds the
\* email, whether it holds one of the four disclaimer phrases, and what stands for
\* its text, title and link
ResultBlock(holds_email, disclaimer, content) ==
    [holds_email |-> holds_email, disclaimer |-> disclaimer, content |-> content]
ResultBlocks(body) ==
    CASE body = "match" -> <<ResultBlock(TRUE, FALSE, "a")>>
      [] body = "match_twice" -> <<ResultBlock(TRUE, FALSE, "a"), ResultBlock(TRUE, FALSE, "a")>>
      [] body = "matches" -> <<ResultBlock(TRUE, FALSE, "a"), ResultBlock(TRUE, FALSE, "b")>>
      [] body = "disclaimer" -> <<ResultBlock(TRUE, TRUE, "c"), ResultBlock(FALSE, FALSE, "b")>>
      [] body = "nomatch" -> <<ResultBlock(FALSE, FALSE, "a")>>
      [] OTHER -> <<>>

\* lines 397-404: match_info; context, result_title and result_url come from the
\* block, search_url from the query
MatchInfo(email, block, query) ==
    [email |-> email, context |-> block.content, search_url |-> query,
     result_title |-> block.content, result_url |-> block.content, query_used |-> query]

\* the test of line 406 left out: every match is appended
NotInExactMatches_always(match_info, exact_matches) == TRUE

\* line 406: if match_info not in exact_matches
NotInExactMatches(match_info, exact_matches) ==
    \A i \in DOMAIN exact_matches : exact_matches[i] # match_info

\* lines 374-408: the loop over the blocks of a page from block k on
RECURSIVE ScanResults(_, _, _, _, _)
ScanResults(blocks, k, email, query, exact_matches) ==
    IF k > Len(blocks) THEN exact_matches
    ELSE LET result == blocks[k]
             match_info == MatchInfo(email, result, query)
         IN  IF result.disclaimer
             THEN ScanResults(blocks, k + 1, email, query, exact_matches)
             ELSE IF result.holds_email /\ NotInExactMatches(match_info, exact_matches)
             THEN ScanResults(blocks, k + 1, email, query,
                              Append(exact_matches, match_info))
             ELSE ScanResults(blocks, k + 1, email, query, exact_matches)

\* the loop without its break
BreaksOnMatch_never(exact_matches) == FALSE

\* lines 410-411: if exact_matches: break
BreaksOnMatch(exact_matches) == exact_matches # <<>>

\* the loop of lines 340-415 from query i on, with exact_matches matches found so
\* far: the requests made, whether one raised, and the matches found
RECURSIVE QueryLoop(_, _, _)
QueryLoop(i, answers, exact_matches) ==
    IF i > Len(queries)
    THEN [requests |-> <<>>, raised |-> FALSE, exact_matches |-> exact_matches]
    ELSE LET o == answers[i]
             request == [query |-> queries[i], answer |-> o]
             found == IF o.kind = "response" /\ Parsed(o)
                      THEN ScanResults(ResultBlocks(o.body), 1, email_patterns[idx],
                                       queries[i], exact_matches)
                      ELSE exact_matches
             rest == IF o.kind = "raise"
                     THEN [requests |-> <<>>, raised |-> TRUE, exact_matches |-> found]
                     ELSE IF Parsed(o) /\ ResultBlocks(o.body) # <<>> /\ BreaksOnMatch(found)
                     THEN [requests |-> <<>>, raised |-> FALSE, exact_matches |-> found]
                     ELSE QueryLoop(i + 1, answers, found)
         IN  [rest EXCEPT !.requests = <<request>> \o @]

\* verify_email_brightdata (lines 319-433): None without a key or on any exception,
\* else the report with exact_match and exact_match_details (lines 425-429);
\* value names the three cases
VerifyEmailBrightdata(q1, q2) ==
    LET r == QueryLoop(1, <<q1, q2>>, <<>>)
    IN  IF ~has_key \/ r.raised THEN [tag |-> "brightdata", value |-> "None"]
        ELSE [tag |-> "brightdata",
              value |-> IF Len(r.exact_matches) > 0 THEN "match" ELSE "nomatch",
              exact_match |-> Len(r.exact_matches) > 0,
              exact_match_details |-> r.exact_matches]

\* requests.request calls made by one verify_email_brightdata call
BrightdataRequests(q1, q2) ==
    IF ~has_key THEN <<>> ELSE QueryLoop(1, <<q1, q2>>, <<>>).requests

\* lines 479-488
BrightdataReturn ==
    /\ pc = "brightdata"
    /\ tpc[idx] = "http"
    /\ \E q1 \in QueryOutcomes, q2 \in QueryOutcomes :
        /\ faults + HttpCost(q1) + HttpCost(q2) <= MaxFaults
        /\ Len(BrightdataRequests(q1, q2)) < 2 => q2 = HttpNominal("nomatch")
        /\ has_key \/ q1 = HttpNominal("nomatch")
        /\ Meets(<<q1, q2>>, HttpCost(q1) + HttpCost(q2))
        /\ SeqAppend(VerifyEmailBrightdata(q1, q2),
                     BrightdataRequests(q1, q2),
                     has_key /\ QueryLoop(1, <<q1, q2>>, <<>>).raised)
    /\ UNCHANGED <<text, variant, session_vars, run_vars, first_name, last_name, domain, use_kickbox, use_brightdata, has_key,
                   email_patterns, smtp_log, dns_log>>

\* an HTTP request to an endpoint that never answers
HttpStalled == [kind |-> "stall", status |-> 0, body |-> "none"]

\* requests.get(url, params=params) at line 242 and requests.request("POST", url,
\* json=payload, headers=headers) at line 358 pass no timeout: when the endpoint
\* never answers, the call never returns and the loop of lines 479 / 491 waits in
\* it. For BrightData the stalled request is the first query, or the second after
\* a first answer without a match
HttpStall ==
    /\ pc \in {"kickbox", "brightdata"}
    /\ tpc[idx] = "http"
    /\ has_key
    /\ \E n \in 1..(IF pc = "kickbox" THEN 1 ELSE Len(queries)) :
        LET sent == [i \in 1..n |->
                        [query |-> IF pc = "kickbox" THEN "verify" ELSE queries[i],
                         answer |-> IF i = n THEN HttpStalled ELSE HttpNominal("nomatch")]]
        IN  /\ Meets(IF pc = "kickbox" THEN HttpStalled ELSE <<HttpStalled, HttpStalled>>, 1)
            /\ calls' = [calls EXCEPT ![idx].http = @ + n, ![idx].requests = @ \o sent]
    /\ tpc' = [tpc EXCEPT ![idx] = "blocked"]
    /\ UNCHANGED <<text, variant, session_vars, run_vars, first_name, last_name, domain, use_kickbox, use_brightdata,
                   has_key, pc, email_patterns, idx, tres, smtp_log, dns_log, verified_patterns, ret>>

(***************************************************************************)
(* The batch run.                                                          *)
(***************************************************************************)
BatchFirst == {<<>>, <<"J">>}
BatchLast == {<<>>, <<"D">>}
BatchDomains == {<<>>, <<"x", ".", "c">>}

\* the API key is read only by the Kickbox and BrightData backends
Init ==
    /\ first_name \in BatchFirst
    /\ last_name \in BatchLast
    /\ domain \in BatchDomains
    /\ use_kickbox \in BOOLEAN
    /\ use_brightdata \in BOOLEAN
    /\ has_key \in IF use_kickbox \/ use_brightdata THEN BOOLEAN ELSE {TRUE}
    /\ pc = "call"
    /\ email_patterns = <<>>
    /\ idx = 1
    /\ tpc = <<>>
    /\ tres = <<>>
    /\ calls = <<>>
    /\ smtp_log = <<>>
    /\ dns_log = <<>>
    /\ verified_patterns = <<>>
    /\ ret = <<>>
    /\ text = <<>>
    /\ variant = [tag |-> "none"]
    /\ faults = 0
    /\ fault = <<>>
    /\ SessionInit
    /\ RunInit

Next ==
    \/ Generate
    \/ Submit
    \/ WorkerTake
    \/ \E t \in Tasks : TaskRun(t)
    \/ Collect
    \/ SeqCall
    \/ KickboxReturn
    \/ BrightdataReturn
    \/ HttpStall

Spec == Init /\ [][Next]_vars

\* the threads of the program keep running: the calling thread and the pool threads
\* take their next step whenever they can, and a request that gets an answer returns
Fairness ==
    /\ WF_vars(Generate)
    /\ WF_vars(Submit)
    /\ WF_vars(WorkerTake)
    /\ \A t \in 1..Len(patterns) : WF_vars(t \in Tasks /\ TaskRun(t))
    /\ WF_vars(Collect)
    /\ WF_vars(SeqCall)
    /\ WF_vars(KickboxReturn)
    /\ WF_vars(BrightdataReturn)

SpecFair == Spec /\ Fairness

(***************************************************************************)
(* The generator alone, over names and domains of every shape.             *)
(***************************************************************************)
NameChars == {"a", "B"}
Names == UNION {[1..k -> NameChars] : k \in 0..MaxNameLen}
GenDomains ==
    {<<>>,
     <<"x", ".", "c">>,
     <<"X", ".", "c">>,
     <<"w", "w", "w", ".", "x", ".", "c">>,
     <<"W", "W", "W", ".", "x", ".", "c">>,
     <<"a", "w", "w", "w", ".", "c">>,
     <<"w", "w", "w", ".", "w", "w", "w", ".", "c">>,
     <<"w", "w", "w", "w", "w", ".", "w", ".", "c">>}

InitGen ==
    /\ first_name \in Names
    /\ last_name \in Names
    /\ domain \in GenDomains
    /\ use_kickbox = FALSE
    /\ use_brightdata = FALSE
    /\ has_key = TRUE
    /\ pc = "call"
    /\ email_patterns = <<>>
    /\ idx = 1
    /\ tpc = <<>>
    /\ tres = <<>>
    /\ calls = <<>>
    /\ smtp_log = <<>>
    /\ dns_log = <<>>
    /\ verified_patterns = <<>>
    /\ ret = <<>>
    /\ text = <<>>
    /\ variant = [tag |-> "none"]
    /\ faults = 0
    /\ fault = <<>>
    /\ SessionInit
    /\ RunInit

NextGen == Generate

SpecGen == InitGen /\ [][NextGen]_vars

(***************************************************************************)
(* check_for_email_variants (lines 297-317).                               *)
(***************************************************************************)
\* the elements of the regular expressions of lines 303-307: an escaped literal
\* (re.escape), \s*, and a group of alternative literals
Lit(str) == [kind |-> "lit", s |-> str, options |-> <<>>]
Ws == [kind |-> "ws", s |-> <<>>, options |-> <<>>]
Alt(options) == [kind |-> "alt", s |-> <<>>, options |-> options]

\* the group without its third alternative
AT_no_paren == Alt(<< <<"@">>, <<"[", "a", "t", "]">> >>)

\* (?:@|\[at\]|\(at\))
AT == Alt(<< <<"@">>, <<"[", "a", "t", "]">>, <<"(", "a", "t", ")">> >>)

\* (?:\.|\[dot\]|\(dot\))
DOT == Alt(<< <<".">>, <<"[", "d", "o", "t", "]">>, <<"(", "d", "o", "t", ")">> >>)

\* email.count('@')
CountAt(s) == Cardinality({i \in DOMAIN s : s[i] = "@"})

\* index of the last "." of s, 0 when there is none (str.rpartition('.'))
LastDot(s) ==
    IF \E i \in DOMAIN s : s[i] = "."
    THEN CHOOSE i \in DOMAIN s : s[i] = "." /\ \A j \in DOMAIN s : s[j] = "." => j <= i
    ELSE 0

\* patterns = [...] of lines 299-308, for an email with exactly one "@"
VariantPatterns(email, first, last) ==
    LET at == FindAt(email, 1)
        local == SubSeq(email, 1, at - 1)
        dom == SubSeq(email, at + 1, Len(email))
        dot == LastDot(dom)
        domain_part == SubSeq(dom, 1, dot - 1)
        tld == SubSeq(dom, dot + 1, Len(dom))
    IN  << <<Lit(email)>>,
           <<Lit(local), Ws, AT, Ws, Lit(dom)>>,
           <<Lit(local), Ws, AT, Ws, Lit(domain_part), Ws, DOT, Ws, Lit(tld)>>,
           <<Lit(first), Lit(<<".">>), Lit(last), Ws, AT, Ws, Lit(dom)>>,
           <<Lit(<<first[1]>>), Lit(last), Ws, AT, Ws, Lit(dom)>> >>

\* \s matches the space of the model's alphabet
IsSpace(c) == c = " "

\* the literal str stands at position i of txt, letter case ignored (re.IGNORECASE)
HasLiteralAt(txt, i, str) ==
    /\ i + Len(str) - 1 <= Len(txt)
    /\ Lower(SubSeq(txt, i, i + Len(str) - 1)) = Lower(str)

\* length of the run of whitespace that starts at position i
RECURSIVE SpacesFrom(_, _)
SpacesFrom(txt, i) ==
    IF i <= Len(txt) /\ IsSpace(txt[i]) THEN 1 + SpacesFrom(txt, i + 1) ELSE 0

\* the regex engine: elements k.. of the pattern matched at position i, by
\* backtracking; the position after the match, or 0 when there is none. \s* is
\* greedy (longest run first), a group tries its alternatives in order
RECURSIVE MatchFrom(_, _, _, _), MatchWs(_, _, _, _, _), MatchAlt(_, _, _, _, _)
MatchFrom(pattern, k, txt, i) ==
    IF k > Len(pattern) THEN i
    ELSE LET e == pattern[k]
         IN  CASE e.kind = "lit" ->
                      IF HasLiteralAt(txt, i, e.s)
                      THEN MatchFrom(pattern, k + 1, txt, i + Len(e.s))
                      ELSE 0
               [] e.kind = "ws" -> MatchWs(pattern, k, txt, i, SpacesFrom(txt, i))
               [] e.kind = "alt" -> MatchAlt(pattern, k, txt, i, 1)

MatchWs(pattern, k, txt, i, n) ==
    IF n < 0 THEN 0
    ELSE LET r == MatchFrom(pattern, k + 1, txt, i + n)
         IN  IF r # 0 THEN r ELSE MatchWs(pattern, k, txt, i, n - 1)

MatchAlt(pattern, k, txt, i, o) ==
    IF o > Len(pattern[k].options) THEN 0
    ELSE LET opt == pattern[k].options[o]
             r == IF HasLiteralAt(txt, i, opt)
                  THEN MatchFrom(pattern, k + 1, txt, i + Len(opt))
                  ELSE 0
         IN  IF r # 0 THEN r ELSE MatchAlt(pattern, k, txt, i, o + 1)

\* re.search(pattern, text, re.IGNORECASE): the leftmost match from position i on
RECURSIVE Search(_, _, _)
Search(pattern, txt, i) ==
    IF i > Len(txt) + 1 THEN [found |-> FALSE, start |-> 0, end |-> 0]
    ELSE LET r == MatchFrom(pattern, 1, txt, i)
         IN  IF r # 0 THEN [found |-> TRUE, start |-> i, end |-> r]
             ELSE Search(pattern, txt, i + 1)

\* the loop returning the match of the last pattern that matches
RECURSIVE FirstMatch_last(_, _, _)
FirstMatch_last(ps, txt, k) ==
    IF k > Len(ps) THEN [tag |-> "None"]
    ELSE LET m == Search(ps[k], txt, 1)
             later == FirstMatch_last(ps, txt, k + 1)
         IN  IF later.tag = "match" \/ ~m.found THEN later
             ELSE [tag |-> "match", pattern |-> ps[k],
                   matched_text |-> SubSeq(txt, m.start, m.end - 1)]

\* lines 310-317: the first pattern, from the k-th on, that matches gives the
\* result; None when none does
RECURSIVE FirstMatch(_, _, _)
FirstMatch(ps, txt, k) ==
    IF k > Len(ps) THEN [tag |-> "None"]
    ELSE LET m == Search(ps[k], txt, 1)
         IN  IF m.found
             THEN [tag |-> "match", pattern |-> ps[k],
                   matched_text |-> SubSeq(txt, m.start, m.end - 1)]
             ELSE FirstMatch(ps, txt, k + 1)

\* check_for_email_variants: the two-name unpacking of email.split("@") raises
\* ValueError unless the email has exactly one "@", first_name[0] raises
\* IndexError for an empty first name
CheckForEmailVariants(txt, email, first, last) ==
    IF CountAt(email) # 1 \/ first = <<>> THEN [tag |-> "raise"]
    ELSE FirstMatch(VariantPatterns(email, first, last), txt, 1)

\* one call of check_for_email_variants
CheckVariantsCall ==
    /\ pc = "check_for_email_variants"
    /\ variant' = CheckForEmailVariants(text, email_patterns[1], first_name, last_name)
    /\ pc' = "checked"
    /\ UNCHANGED <<text, session_vars, run_vars, first_name, last_name, domain, use_kickbox, use_brightdata,
                   has_key, email_patterns, idx, tpc, tres, calls, smtp_log, dns_log,
                   verified_patterns, ret, faults, fault>>

\* the arguments email, first_name, last_name of the calls
VariantArguments ==
    {[email |-> <<"j", ".", "d", "@", "x", ".", "c">>, first |-> <<"j">>, last |-> <<"d">>],
     [email |-> <<"d", "j", "@", "x", ".", "c">>, first |-> <<"J">>, last |-> <<"d">>],
     [email |-> <<"j", "d", "@", "x", ".", "c">>, first |-> <<"j">>, last |-> <<"d">>],
     [email |-> <<"d", "j", "@", "x">>, first |-> <<"j">>, last |-> <<"d">>],
     [email |-> <<"j", ".", "d", "@", "x", ".", "c">>, first |-> <<>>, last |-> <<"d">>],
     [email |-> <<"j", "@", "x", "@", "c">>, first |-> <<"j">>, last |-> <<"d">>]}

\* the pieces the texts are made of
Fragments ==
    {<<"j", ".", "d">>, <<"j", "d">>, <<"D", "j">>,
     <<"@">>, <<"[", "a", "t", "]">>, <<" ", "(", "A", "T", ")", " ">>, <<" ">>,
     <<"x", ".", "c">>, <<"x", " ", "[", "d", "o", "t", "]", " ", "c">>,
     <<"h", "i", " ">>}

RECURSIVE Flatten(_)
Flatten(ss) == IF ss = <<>> THEN <<>> ELSE Head(ss) \o Flatten(Tail(ss))

Texts == {Flatten(fs) : fs \in UNION {[1..k -> Fragments] : k \in 0..MaxFragments}}

InitVariants ==
    /\ \E a \in VariantArguments :
        /\ email_patterns = <<a.email>>
        /\ first_name = a.first
        /\ last_name = a.last
    /\ text \in Texts
    /\ variant = [tag |-> "none"]
    /\ domain = <<>>
    /\ use_kickbox = FALSE
    /\ use_brightdata = FALSE
    /\ has_key = TRUE
    /\ pc = "check_for_email_variants"
    /\ idx = 1
    /\ tpc = <<>>
    /\ tres = <<>>
    /\ calls = <<>>
    /\ smtp_log = <<>>
    /\ dns_log = <<>>
    /\ verified_patterns = <<>>
    /\ ret = <<>>
    /\ faults = 0
    /\ fault = <<>>
    /\ SessionInit
    /\ RunInit

NextVariants == CheckVariantsCall

SpecVariants == InitVariants /\ [][NextVariants]_vars

(***************************************************************************)
(* The batch DeepSearch tab (dashboard.py lines 726-858): the buttons 'Add  *)
(* to Batch', 'Clear Batch' and 'Search Batch with DeepResearch' working on *)
(* st.session_state. Every click is handled by one script run.             *)
(***************************************************************************)
\* the rows of search_df the selectbox offers: two of them carry the same name
Profiles ==
    {[name |-> "ann", company |-> "x"],
     [name |-> "ann", company |-> "y"],
     [name |-> "bob", company |-> "x"]}

\* lines 758-765: profile_info of the selected row (title, school, profile_url and
\* domain go with the company)
ProfileInfo(selected_row) == [name |-> selected_row.name, company |-> selected_row.company]

\* the test left out: every profile is appended
AlreadyInBatch_never(profile_info) == FALSE

\* line 768: any(p['name'] == profile_info['name'] for p in selected_profiles)
AlreadyInBatch(profile_info) ==
    \E i \in DOMAIN selected_profiles : selected_profiles[i].name = profile_info.name

\* lines 756-772: 'Add to Batch'
AddToBatch(selected_row) ==
    /\ upc = "idle"
    /\ selected_profiles' =
           IF ~AlreadyInBatch(ProfileInfo(selected_row))
           THEN Append(selected_profiles, ProfileInfo(selected_row))
           ELSE selected_profiles
    /\ clicked' = "add"
    /\ UNCHANGED <<search_results, progress, upc, search_idx, search_log, engine_vars, run_vars>>

\* lines 787-790: 'Clear Batch', shown while the batch is not empty (line 775)
ClearBatch ==
    /\ upc = "idle"
    /\ selected_profiles # <<>>
    /\ selected_profiles' = <<>>
    /\ search_results' = <<>>
    /\ clicked' = "clear"
    /\ UNCHANGED <<progress, upc, search_idx, search_log, engine_vars, run_vars>>

\* lines 793-796: 'Search Batch with DeepResearch', shown while the batch is not
\* empty: the previous results are dropped and the progress bar starts at 0
SearchBatch ==
    /\ upc = "idle"
    /\ selected_profiles # <<>>
    /\ search_results' = <<>>
    /\ progress' = [num |-> 0, den |-> 1]
    /\ search_idx' = 1
    /\ search_log' = <<>>
    /\ upc' = "searching"
    /\ clicked' = "search"
    /\ UNCHANGED <<selected_profiles, engine_vars, run_vars>>

\* what JinaDeepResearch() and search_email give for one profile (jina_research.py):
\* the constructor raises without the key (lines 14-15); query re-raises a failed
\* request (lines 164-166); else a result whose email, source and thoughts may be
\* None (lines 66-72, 116-122)
JinaResult(email, confidence, source, thoughts) ==
    [kind |-> "result", email |-> email, confidence |-> confidence, source |-> source,
     thoughts |-> thoughts, text |-> "none"]
JinaRaise(e) ==
    [kind |-> "raise", email |-> "None", confidence |-> "low", source |-> "None",
     thoughts |-> "None", text |-> e]
JinaOutcomes ==
    IF ~has_key THEN {JinaRaise("JINA_API_KEY not found in Streamlit secrets")}
    ELSE {JinaResult("ann@x.c", "high", "x.c/team", "found on the team page"),
          JinaResult("None", "low", "None", "None"),
          JinaRaise("503 Server Error")}

\* the except branch giving the row of a search without an email
SearchRow_not_found(profile, o) ==
    [name |-> profile.name, company |-> profile.company, email |-> "Not found",
     confidence |-> IF o.kind = "result" THEN o.confidence ELSE "N/A",
     source |-> "N/A", thoughts |-> "N/A"]

\* lines 809-815 and 820-826: search_result, the profile with what the search gave
SearchRow(profile, o) ==
    IF o.kind = "result"
    THEN [name |-> profile.name, company |-> profile.company,
          email |-> IF o.email # "None" THEN o.email ELSE "Not found",
          confidence |-> o.confidence,
          source |-> IF o.source # "None" THEN o.source ELSE "N/A",
          thoughts |-> IF o.thoughts # "None" THEN o.thoughts ELSE "N/A"]
    ELSE [name |-> profile.name, company |-> profile.company, email |-> "Error",
          confidence |-> "N/A", source |-> o.text, thoughts |-> "N/A"]

\* lines 797-832: one turn of the loop: the search of the profile at search_idx,
\* its row appended, the progress bar set to (idx + 1) / len(selected_profiles);
\* after the last profile the script run is over
SearchProfile ==
    /\ upc = "searching"
    /\ \E o \in JinaOutcomes :
        /\ search_results' =
               Append(search_results, SearchRow(selected_profiles[search_idx], o))
        /\ search_log' = Append(search_log, o)
    /\ progress' = [num |-> search_idx, den |-> Len(selected_profiles)]
    /\ IF search_idx = Len(selected_profiles)
       THEN upc' = "idle" /\ search_idx' = search_idx
       ELSE upc' = upc /\ search_idx' = search_idx + 1
    /\ UNCHANGED <<selected_profiles, clicked, engine_vars, run_vars>>

\* jina_research.py lines 156-160: requests.post without a timeout, to an endpoint
\* that never answers
SearchStall ==
    /\ upc = "searching"
    /\ has_key
    /\ upc' = "blocked"
    /\ UNCHANGED <<selected_profiles, search_results, progress, search_idx, search_log, clicked,
                   engine_vars, run_vars>>

\* no call of the verification engine is under way
EngineIdle ==
    /\ first_name = <<>> /\ last_name = <<>> /\ domain = <<>>
    /\ use_kickbox = FALSE /\ use_brightdata = FALSE
    /\ pc = "idle"
    /\ email_patterns = <<>>
    /\ idx = 1
    /\ tpc = <<>>
    /\ tres = <<>>
    /\ calls = <<>>
    /\ smtp_log = <<>>
    /\ dns_log = <<>>
    /\ verified_patterns = <<>>
    /\ ret = <<>>
    /\ text = <<>>
    /\ variant = [tag |-> "none"]
    /\ faults = 0
    /\ fault = <<>>

InitSession ==
    /\ EngineIdle
    /\ has_key \in BOOLEAN
    /\ SessionInit
    /\ RunInit

NextSession ==
    \/ \E selected_row \in Profiles : AddToBatch(selected_row)
    \/ ClearBatch
    \/ SearchBatch
    \/ SearchProfile
    \/ SearchStall

SpecSession == InitSession /\ [][NextSession]_vars

(***************************************************************************)
(* The decrypted databases of a script run: LinkedInDashboard().run()       *)
(* (dashboard.py lines 522-1350) with the LTADashboard of the LTA tab       *)
(* (lta_dashboard.py lines 10-54). Streamlit runs the script again for      *)
(* every interaction; the files on disk outlive a run.                     *)
(***************************************************************************)
\* decrypt_database: the key is missing or the data cannot be read or decrypted
\* (raised before the temporary file is made), everything works, or writing the
\* temporary file fails
DecryptOutcomes == {"raise", "ok", "write_failed"}

\* tempfile.NamedTemporaryFile(delete=False): a file with a name no file has
NewTempFile == CHOOSE n \in 1..(Cardinality(temp_files) + 1) : n \notin temp_files

\* get_connection with decrypt_database of instance who (dashboard.py lines 30-63,
\* lta_dashboard.py lines 16-49): decrypts only while temp_db_path is not set
GetConnection(who, o) ==
    IF temp_db_path[who] # 0
    THEN UNCHANGED <<temp_db_path, temp_files, decrypts>>
    ELSE /\ decrypts' = [decrypts EXCEPT ![who] = @ + 1]
         /\ IF o = "raise"
            THEN UNCHANGED <<temp_db_path, temp_files>>
            ELSE /\ temp_db_path' = [temp_db_path EXCEPT ![who] = NewTempFile]
                 /\ temp_files' = temp_files \cup {NewTempFile}

\* lines 1348-1350 and 522-529: the script makes its LinkedInDashboard and calls run
RunStart ==
    /\ rpc \in {"idle", "returned"}
    /\ runs < MaxRuns
    /\ runs' = runs + 1
    /\ temp_db_path' = [linkedin |-> 0, lta |-> 0]
    /\ decrypts' = [linkedin |-> 0, lta |-> 0]
    /\ rpc' = "load_data"
    /\ UNCHANGED <<temp_files, engine_vars, session_vars>>

\* line 531 with load_data (lines 70-113): the connection is made, which decrypts
\* the database, and the tables are read; an exception of either goes to the
\* except and finally clauses of run
LoadData ==
    /\ rpc = "load_data"
    /\ \E o \in DecryptOutcomes, read \in BOOLEAN :
        /\ GetConnection("linkedin", o)
        /\ rpc' = IF o = "ok" /\ read THEN "render" ELSE "finally"
    /\ UNCHANGED <<runs, engine_vars, session_vars>>

\* lines 533-858: the filters and the tabs before the LTA tab are rendered, or
\* something in them raises
Render ==
    /\ rpc = "render"
    /\ \E raises \in BOOLEAN : rpc' = IF raises THEN "finally" ELSE "tab6"
    /\ UNCHANGED <<runs, temp_db_path, temp_files, decrypts, engine_vars, session_vars>>

\* lines 860-1340: the LTA tab makes an LTADashboard and, if the encrypted file
\* exists, loads the tables through its get_connection inside a try whose except
\* clause (line 1265) shows the error; then the rest of the page is rendered
LtaTab ==
    /\ rpc = "tab6"
    /\ \E exists \in BOOLEAN, o \in DecryptOutcomes :
        IF exists THEN GetConnection("lta", o)
        ELSE UNCHANGED <<temp_db_path, temp_files, decrypts>>
    /\ rpc' = "finally"
    /\ UNCHANGED <<runs, engine_vars, session_vars>>

\* lines 1345-1346 with cleanup (lines 65-68): the file of self is unlinked if its
\* path is set and the file exists
Cleanup ==
    /\ rpc = "finally"
    /\ temp_files' = IF temp_db_path.linkedin # 0 /\ temp_db_path.linkedin \in temp_files
                     THEN temp_files \ {temp_db_path.linkedin}
                     ELSE temp_files
    /\ rpc' = "returned"
    /\ UNCHANGED <<runs, temp_db_path, decrypts, engine_vars, session_vars>>

InitRun ==
    /\ EngineIdle
    /\ has_key = TRUE
    /\ SessionInit
    /\ RunInit

NextRun ==
    \/ RunStart
    \/ LoadData
    \/ Render
    \/ LtaTab
    \/ Cleanup

SpecRun == InitRun /\ [][NextRun]_vars

(***************************************************************************)
(* Properties.                                                             *)
(***************************************************************************)
NonEmptyInput == first_name # <<>> /\ last_name # <<>> /\ domain # <<>>

Occurrences(seq, x) == Cardinality({i \in DOMAIN seq : seq[i] = x})

ReportEmails == [i \in DOMAIN ret |-> ret[i].email]

\* C1: when generate_email_permutations returns for non-empty input, whatever the
\* backend and however many verifications raised, the returned list has as many
\* reports as there are candidates and every candidate's address occurs in the
\* reports exactly as often as among the candidates: none dropped, none doubled.
C1_OneReportPerCandidate ==
    (pc = "returned" /\ NonEmptyInput) =>
        /\ Len(email_patterns) > 0
        /\ Len(ret) = Len(email_patterns)
        /\ \A e \in Range(email_patterns) \cup Range(ReportEmails) :
               Occurrences(ReportEmails, e) = Occurrences(email_patterns, e)

\* a pool run has returned a full list although one call raised
C1_Witness ==
    /\ pc = "returned"
    /\ Len(ret) = 12
    /\ \E i \in DOMAIN ret : ret[i].verification.tag = "error"

C3_NoMxShortCircuits ==
    \A t \in DOMAIN tpc :
        /\ (tpc[t] = "done" /\ tres[t].tag = "results" /\ tres[t].syntax /\ ~tres[t].mx_record) =>
              /\ calls[t].stages = <<"syntax", "mx">>
              /\ calls[t].dns = 1
              /\ smtp_log = <<>>
              /\ tres[t].smtp = "Not attempted"
        /\ calls[t].exc = "mx" =>
              /\ tpc[t] = "done"
              /\ tres[t].syntax
              /\ ~tres[t].mx_record

\* a direct call whose MX lookup raised has returned
C3_Witness ==
    /\ pc = "verify_email"
    /\ tpc[1] = "done"
    /\ calls[1].exc = "mx"
    /\ ~tres[1].mx_record

\* the replies to RCPT TO in the recorded session
RcptReplies == {smtp_log[i].reply : i \in {j \in DOMAIN smtp_log : smtp_log[j].cmd = "rcpt"}}

\* C4: verify_smtp returns True for RCPT code 250, False for 550 and 553,
\* 'Inconclusive' for every other code, and 'Error' exactly when a step of the probe
\* raised; the four values are distinct and each probe returns one of them.
C4_RcptMapping ==
    (pc = "verify_email" /\ tpc[1] = "done" /\ "smtp" \in Range(calls[1].stages)) =>
        LET r == tres[1].smtp
        IN  /\ r \in {"True", "False", "Inconclusive", "Error"}
            /\ (r = "Error") <=> (calls[1].exc = "smtp")
            /\ calls[1].exc = "none" =>
                  /\ Cardinality(RcptReplies) = 1
                  /\ \A c \in RcptReplies :
                        /\ (r = "True") <=> (c = 250)
                        /\ (r = "False") <=> (c = 550 \/ c = 553)
                        /\ (r = "Inconclusive") <=> (c # 250 /\ c # 550 /\ c # 553)

\* a probe answered with code 553 has returned False
C4_Witness ==
    /\ pc = "verify_email"
    /\ tpc[1] = "done"
    /\ RcptReplies = {553}
    /\ tres[1].smtp = "False"

C5_Order == <<"connect", "ehlo", "mail", "rcpt", "quit">>

C5_Position(cmd) == CHOOSE k \in DOMAIN C5_Order : C5_Order[k] = cmd

C5_SessionOpened ==
    /\ pc = "verify_email"
    /\ tpc[1] = "done"
    /\ "smtp" \in Range(calls[1].stages)
    /\ smtp_log # <<>>
    /\ smtp_log[1].reply # -1

\* C5 as stated: every session in which the connection was made issues only
\* connect, EHLO, MAIL FROM, RCPT TO, QUIT, in that order and each at most once,
\* with exactly one RCPT TO, naming the candidate; never DATA.
C5_Original ==
    C5_SessionOpened =>
        /\ \A i \in DOMAIN smtp_log : smtp_log[i].cmd \in Range(C5_Order)
        /\ \A i, j \in DOMAIN smtp_log :
               i < j => C5_Position(smtp_log[i].cmd) < C5_Position(smtp_log[j].cmd)
        /\ Cardinality({i \in DOMAIN smtp_log : smtp_log[i].cmd = "rcpt"}) = 1
        /\ \A i \in DOMAIN smtp_log :
               smtp_log[i].cmd = "rcpt" => smtp_log[i].arg = email_patterns[1]

\* C5, amended: the commands of a probe are a prefix of connect, EHLO, MAIL FROM,
\* RCPT TO, QUIT (a step that raises ends the session there), so each is sent at
\* most once and DATA never; an RCPT TO names the candidate; there is exactly one
\* RCPT TO when no earlier step raised, and all five commands when no step raised.
C5_Amended ==
    (pc = "verify_email" /\ tpc[1] = "done" /\ "smtp" \in Range(calls[1].stages)) =>
        /\ Len(smtp_log) <= Len(C5_Order)
        /\ \A i \in DOMAIN smtp_log : smtp_log[i].cmd = C5_Order[i]
        /\ \A i \in DOMAIN smtp_log :
               smtp_log[i].cmd = "rcpt" => smtp_log[i].arg = email_patterns[1]
        /\ \A i \in DOMAIN smtp_log : i < Len(smtp_log) => smtp_log[i].reply # -1
        /\ (Len(smtp_log) < Len(C5_Order)) => (calls[1].exc = "smtp")
        /\ calls[1].exc = "none" => Len(smtp_log) = Len(C5_Order)

\* a probe in which no step raised has issued the five commands
C5_Witness ==
    /\ pc = "verify_email"
    /\ tpc[1] = "done"
    /\ calls[1].exc = "none"
    /\ Len(smtp_log) = 5
    /\ smtp_log[4].arg = email_patterns[1]

\* a report that shows an error rather than a verdict
ErrorOutcome(v) ==
    \/ v.tag = "error"
    \/ v.tag = "results" /\ v.smtp = "Error"
    \/ v.tag \in {"kickbox", "brightdata"} /\ v.value = "None"

BatchCompleted ==
    /\ Len(ret) = Len(email_patterns)
    /\ \A t \in DOMAIN tpc : tpc[t] \in {"done", "raised"}
    /\ \A t \in DOMAIN ret : ret[t].email = email_patterns[t]

\* C6 as stated: a batch that returns has verified every candidate, and every
\* candidate in whose verification an exception was raised has an Error outcome in
\* its report.
C6_Original ==
    (pc = "returned" /\ NonEmptyInput) =>
        /\ BatchCompleted
        /\ \A t \in DOMAIN ret :
               calls[t].exc # "none" => ErrorOutcome(ret[t].verification)

\* C6, amended: a batch that returns has verified every candidate; a candidate in
\* whose verification an exception was raised has an error marker in its report
\* ({'error': ...} for an exception leaving verify_email, smtp = 'Error' for one
\* inside verify_smtp, None for one inside the Kickbox or BrightData call), except
\* an exception of the MX lookup, which is reported as mx_record = False with
\* smtp = 'Not attempted'.
C6_Amended ==
    (pc = "returned" /\ NonEmptyInput) =>
        /\ BatchCompleted
        /\ \A t \in DOMAIN ret :
               /\ calls[t].exc \notin {"none", "mx"} => ErrorOutcome(ret[t].verification)
               /\ calls[t].exc = "mx" =>
                      /\ ret[t].verification.tag = "results"
                      /\ ~ret[t].verification.mx_record
                      /\ ret[t].verification.smtp = "Not attempted"

\* a Kickbox batch has returned twelve reports, one of them None after an exception
C6_Witness ==
    /\ pc = "returned"
    /\ use_kickbox /\ ~use_brightdata
    /\ Len(ret) = 12
    /\ \E t \in DOMAIN ret :
          /\ calls[t].exc = "http"
          /\ ret[t].verification.value = "None"
    /\ \E t \in DOMAIN ret : ret[t].verification.value = "deliverable"

VerificationsInFlight ==
    Cardinality({t \in DOMAIN tpc : tpc[t] \in {"running", "http", "blocked"}})

C8_Locals ==
    LET first == Lower(first_name)
        last == Lower(last_name)
        f == <<first[1]>>
        l == <<last[1]>>
    IN  << first \o last,
           f \o last,
           first \o <<".">> \o last,
           first \o <<"_">> \o last,
           last \o first,
           first \o l,
           f \o <<".">> \o last,
           last \o <<".">> \o first,
           l \o first,
           last \o f,
           first \o <<".">> \o l,
           last \o <<".">> \o f >>

AfterAt(email) == SubSeq(email, FindAt(email, 1) + 1, Len(email))

\* C8: for non-empty input the generator produces exactly 12 candidates, the i-th
\* being the i-th template applied to the lower-cased names, followed by "@" and
\* one domain common to all.
C8_TwelveInTemplateOrder ==
    (pc # "call" /\ NonEmptyInput) =>
        /\ Len(email_patterns) = 12
        /\ \A i \in 1..12 :
              /\ StartsWith(email_patterns[i], C8_Locals[i] \o <<"@">>)
              /\ SubSeq(email_patterns[i], Len(C8_Locals[i]) + 2, Len(email_patterns[i]))
                     = AfterAt(email_patterns[1])

\* candidates were generated from names with upper-case letters
C8_Witness ==
    /\ pc # "call"
    /\ first_name = <<"B", "a">>
    /\ last_name = <<"a", "B">>
    /\ Len(email_patterns) = 12
    /\ email_patterns[7] = <<"b", ".", "a", "b", "@", "x", ".", "c">>

\* the normalization the claim describes: one leading "www." removed, lower-cased
NormalizedDomain(d) ==
    Lower(IF StartsWith(d, WWW) THEN SubSeq(d, Len(WWW) + 1, Len(d)) ELSE d)

\* C9 as stated: every candidate is entirely lower-case and its domain part is the
\* input domain with a leading "www." removed and lower-cased.
C9_Original ==
    (pc # "call" /\ NonEmptyInput) =>
        \A i \in DOMAIN email_patterns :
            /\ email_patterns[i] = Lower(email_patterns[i])
            /\ AfterAt(email_patterns[i]) = NormalizedDomain(domain)

\* C10: with an empty first name, last name or domain the call returns the empty
\* list and nothing else happens: no candidate, no verification, no DNS query, no
\* SMTP session, no HTTP request, whatever the backend flags.
C10_EmptyInputReturnsEmpty ==
    (first_name = <<>> \/ last_name = <<>> \/ domain = <<>>) =>
        /\ pc \in {"call", "returned"}
        /\ email_patterns = <<>>
        /\ tpc = <<>>
        /\ calls = <<>>
        /\ verified_patterns = <<>>
        /\ ret = <<>>
        /\ faults = 0

\* the call has returned for an empty domain with BrightData selected
C10_Witness ==
    /\ pc = "returned"
    /\ first_name # <<>> /\ last_name # <<>> /\ domain = <<>>
    /\ use_brightdata
    /\ ret = <<>>

\* C11 as stated: the domain of the candidates is a fixed point of the
\* normalization (normalizing it again changes nothing), and the input domain
\* with "www." put in front gives the same candidate domain.
C11_Original ==
    (pc # "call" /\ NonEmptyInput) =>
        LET normalized == AfterAt(email_patterns[1])
        IN  /\ ReplaceWww(normalized) = normalized
            /\ ReplaceWww(WWW \o domain) = normalized

\* the answers candidate t's HTTP requests got
Answers(t) == [i \in DOMAIN calls[t].requests |-> calls[t].requests[i].answer]

Is2xx(o) == o.kind = "response" /\ o.status \in 200..299

\* C12 as stated: in a Kickbox run, a candidate whose request was answered with a
\* non-2xx status, or with a payload that is no JSON object, has the error outcome
\* (None) in its report, never a populated result record.
C12_Original ==
    \A t \in DOMAIN tpc :
        (use_kickbox /\ ~use_brightdata /\ tpc[t] = "done") =>
            \A i \in DOMAIN Answers(t) :
                LET o == Answers(t)[i]
                IN  (o.kind = "response" /\ (~Is2xx(o) \/ o.body \in {"not_json", "not_object"}))
                        => tres[t].value = "None"

\* the queries candidate t's BrightData call sent, in order
QueriesSent(t) == [i \in DOMAIN calls[t].requests |-> calls[t].requests[i].query]

\* the answer is a result page, delivered with status 200, that holds the email
FoundMatch(o) ==
    /\ o.kind = "response"
    /\ o.status = 200
    /\ \E k \in DOMAIN ResultBlocks(o.body) :
          ResultBlocks(o.body)[k].holds_email /\ ~ResultBlocks(o.body)[k].disclaimer

\* C13: a BrightData call sends its queries in the order exact email, full name +
\* email; a query whose result page (status 200) held a match is the last one
\* sent, so the second query is sent only when the first found no match.
C13_ShortCircuitsOnMatch ==
    \A t \in DOMAIN tpc :
        (use_brightdata /\ tpc[t] = "done") =>
            /\ QueriesSent(t) \in {<<>>, <<"exact_email">>, <<"exact_email", "name_email">>}
            /\ (QueriesSent(t) = <<>>) <=> ~has_key
            /\ \A i \in DOMAIN Answers(t) : FoundMatch(Answers(t)[i]) => i = Len(Answers(t))
            /\ Len(Answers(t)) = 2 => ~FoundMatch(Answers(t)[1])

\* a call whose first query found a match has reported it after one request, and
\* an earlier call has sent both queries
C13_Witness ==
    \E t, u \in DOMAIN tpc :
        /\ use_brightdata
        /\ tpc[t] = "done" /\ tpc[u] = "done"
        /\ Len(Answers(t)) = 1
        /\ FoundMatch(Answers(t)[1])
        /\ tres[t].value = "match"
        /\ QueriesSent(u) = <<"exact_email", "name_email">>

\* C14 as stated: in a BrightData call, a query answered with a non-2xx status is
\* skipped and the next query is still sent; a match held by any 2xx response is
\* found; and a call in which queries were skipped (and none raised) ends with a
\* normal report, not with None.
C14_Original ==
    \A t \in DOMAIN tpc :
        (use_brightdata /\ has_key /\ tpc[t] = "done") =>
            LET as == Answers(t)
            IN  /\ (as[1].kind = "response" /\ ~Is2xx(as[1])) => Len(as) = 2
                /\ (\E i \in DOMAIN as : Is2xx(as[i]) /\ as[i].body = "match")
                       => tres[t].value = "match"
                /\ (\A i \in DOMAIN as : as[i].kind = "response")
                       => tres[t].value \in {"match", "nomatch"}

\* the arguments of the check_for_email_variants call
TargetEmail == email_patterns[1]
LocalPart == SubSeq(TargetEmail, 1, FindAt(TargetEmail, 1) - 1)
DomainPart == AfterAt(TargetEmail)
WellFormedArguments == CountAt(TargetEmail) = 1 /\ first_name # <<>>

\* occurrences in the text, as sets of positions: from a set P of positions, the
\* positions reached by reading str (letter case ignored), by reading any run of
\* spaces, and by reading a separator (one of the forms, spaces around it)
AfterLiteral(P, str) ==
    {p + Len(str) : p \in {q \in P : /\ q + Len(str) - 1 <= Len(text)
                                     /\ Lower(SubSeq(text, q, q + Len(str) - 1)) = Lower(str)}}
AfterSpaces(P) ==
    {q \in 1..(Len(text) + 1) : \E p \in P : p <= q /\ \A j \in p..(q - 1) : text[j] = " "}
AfterSeparator(P, forms) ==
    AfterSpaces(UNION {AfterLiteral(AfterSpaces(P), f) : f \in forms})

AtWords == {<<"[", "a", "t", "]">>, <<"(", "a", "t", ")">>}
AtForms == AtWords \cup {<<"@">>}
DotForms == {<<".">>, <<"[", "d", "o", "t", "]">>, <<"(", "d", "o", "t", ")">>}

\* the positions where an occurrence of family k that starts at position i ends:
\* 1 the email; 2 local part, at-separator, domain; 3 the same with the last dot of
\* the domain a dot-separator; 4 first.last, at-separator, domain; 5 initial + last,
\* at-separator, domain
FamilyEnds(k, i) ==
    CASE k = 1 -> AfterLiteral({i}, TargetEmail)
      [] k = 2 -> AfterLiteral(AfterSeparator(AfterLiteral({i}, LocalPart), AtForms), DomainPart)
      [] k = 3 ->
           AfterLiteral(
               AfterSeparator(
                   AfterLiteral(AfterSeparator(AfterLiteral({i}, LocalPart), AtForms),
                                SubSeq(DomainPart, 1, LastDot(DomainPart) - 1)),
                   DotForms),
               SubSeq(DomainPart, LastDot(DomainPart) + 1, Len(DomainPart)))
      [] k = 4 ->
           AfterLiteral(
               AfterSeparator(AfterLiteral({i}, first_name \o <<".">> \o last_name), AtForms),
               DomainPart)
      [] k = 5 ->
           AfterLiteral(
               AfterSeparator(AfterLiteral({i}, <<first_name[1]>> \o last_name), AtForms),
               DomainPart)

Mentions(k) == \E i \in 1..(Len(text) + 1) : FamilyEnds(k, i) # {}

\* C15: a call with an email that has one "@" and a non-empty first name returns
\* None exactly when the text holds no occurrence of any of the five families, and
\* otherwise the pattern of the lowest-numbered family (exact, basic obfuscation,
\* full obfuscation, first.last, initial+last) that occurs in the text, with an
\* occurrence of that family as the matched text; any other call raises.
C15_LowestFamilyWins ==
    pc = "checked" =>
        /\ (variant.tag = "raise") <=> ~WellFormedArguments
        /\ WellFormedArguments =>
              /\ (variant.tag = "None") <=> (\A k \in 1..5 : ~Mentions(k))
              /\ variant.tag = "match" =>
                    LET k == CHOOSE f \in 1..5 : Mentions(f) /\ \A g \in 1..(f - 1) : ~Mentions(g)
                        m == variant.matched_text
                    IN  /\ variant.pattern = VariantPatterns(TargetEmail, first_name, last_name)[k]
                        /\ \E i \in 1..(Len(text) + 1) :
                              /\ i + Len(m) \in FamilyEnds(k, i)
                              /\ SubSeq(text, i, i + Len(m) - 1) = m

\* a text that holds only the first.last form has been matched by the fourth
\* pattern
C15_Witness ==
    /\ pc = "checked"
    /\ variant.tag = "match"
    /\ ~Mentions(1) /\ ~Mentions(2) /\ ~Mentions(3) /\ Mentions(4)
    /\ variant.pattern = VariantPatterns(TargetEmail, first_name, last_name)[4]
    /\ variant.matched_text = <<"j", ".", "d", "[", "a", "t", "]", "x", ".", "c">>

\* the text holds the local part, "[at]" or "(at)" with any spaces around it, and
\* the domain, in a row
MentionsObfuscated ==
    \E i \in 1..(Len(text) + 1) :
        AfterLiteral(AfterSeparator(AfterLiteral({i}, LocalPart), AtWords), DomainPart) # {}

\* C16: for a text that holds the local part, "[at]" or "(at)" (spaces allowed
\* around it) and the domain, and nowhere the email itself (in any letter case),
\* the call returns a match with the basic-obfuscation pattern, the second
\* of the list, not with the exact pattern.
C16_BasicObfuscationFamily ==
    (pc = "checked" /\ WellFormedArguments /\ MentionsObfuscated /\ ~Mentions(1)) =>
        /\ variant.tag = "match"
        /\ variant.pattern = VariantPatterns(TargetEmail, first_name, last_name)[2]
        /\ variant.pattern # VariantPatterns(TargetEmail, first_name, last_name)[1]
        /\ Lower(variant.matched_text) # Lower(TargetEmail)

\* "j.d (AT) x.c" has been matched for j.d@x.c by the second pattern
C16_Witness ==
    /\ pc = "checked"
    /\ TargetEmail = <<"j", ".", "d", "@", "x", ".", "c">>
    /\ text = <<"j", ".", "d", " ", "(", "A", "T", ")", " ", "x", ".", "c">>
    /\ variant.tag = "match"
    /\ variant.matched_text = <<"j", ".", "d", " ", "(", "A", "T", ")", " ", "x", ".", "c">>

\* C17 as stated: every batch run eventually completes, whatever the remote
\* endpoints do: generate_email_permutations returns.
C17_Original == <>(pc = "returned")

\* the detail string a report carries: the text under 'error'; the results of
\* verify_email hold two booleans and one of the five fixed words of smtp, and a
\* Kickbox or BrightData report of a failed call is None
ReportDetail(v) == IF v.tag = "error" THEN <<v.error>> ELSE <<>>

\* C18 as stated: in the returned list, every candidate in whose verification a
\* network error or an exception occurred is present and its report carries the
\* detail of that error.
C18_Original ==
    (pc = "returned" /\ NonEmptyInput) =>
        \A t \in DOMAIN calls :
            calls[t].exc # "none" =>
                /\ t \in DOMAIN ret
                /\ ret[t].email = email_patterns[t]
                /\ ReportDetail(ret[t].verification) # <<>>

\* C19: no candidate is verified twice and no stage or request is repeated: the
\* cascade of a candidate calls each of its stages at most once (so one syntax
\* check and one SMTP session at most, and no stage again after it failed), a
\* Kickbox call makes at most one request, a BrightData call sends no query twice,
\* and the sequential backends run no cascade stage at all.
C19_NoRetry ==
    \A t \in DOMAIN calls :
        /\ \A st \in {"syntax", "mx", "smtp"} : Occurrences(calls[t].stages, st) <= 1
        /\ calls[t].http = Len(calls[t].requests)
        /\ \A i, j \in DOMAIN calls[t].requests :
               i # j => calls[t].requests[i].query # calls[t].requests[j].query
        /\ Backend = "kickbox" => Len(calls[t].requests) <= 1
        /\ Backend = "submit" => calls[t].requests = <<>>
        /\ Backend # "submit" => calls[t].stages = <<>>
        /\ (Backend = "submit" /\ tpc[t] \in {"done", "raised"}) =>
               Occurrences(calls[t].stages, "syntax") = 1

\* a Kickbox batch has returned in which the request of one candidate raised and
\* was made once
C19_Witness ==
    /\ pc = "returned"
    /\ Backend = "kickbox"
    /\ Len(ret) = 12
    /\ \E t \in DOMAIN calls :
          /\ calls[t].exc = "http"
          /\ Len(calls[t].requests) = 1
          /\ ret[t].verification.value = "None"

\* the exchange of the record with the lowest preference value
HighestPriorityHost(records) ==
    (CHOOSE r \in Range(records) : \A q \in Range(records) : r.preference <= q.preference).exchange

\* C20 as stated: a verify_email call that reaches the SMTP stage makes exactly
\* one MX lookup, that of the MX stage; the probe connects to the host with the
\* lowest preference value among the records of that lookup; and no lookup of the
\* probe fails after the MX stage found records.
C20_Original ==
    (pc = "verify_email" /\ tpc[1] = "done" /\ "smtp" \in Range(calls[1].stages)) =>
        /\ calls[1].dns = 1
        /\ Len(dns_log) = 1
        /\ dns_log[1].by = "verify_mx_record"
        /\ \A i \in DOMAIN smtp_log :
               smtp_log[i].cmd = "connect" =>
                   smtp_log[i].arg = <<HighestPriorityHost(dns_log[1].records)>>
        /\ ~(tres[1].mx_record /\ tres[1].smtp = "Error"
                /\ \E i \in DOMAIN dns_log : dns_log[i].outcome = "raise")

\* C21 as stated: every verify_email call ends by returning one result triple, in
\* one of three ways: after the syntax stage alone with syntax false, after the
\* syntax and MX stages with mx_record false, or after the three stages in the
\* order syntax, MX, SMTP with the outcome of the probe.
C21_Original ==
    (pc = "verify_email" /\ tpc[1] # "running") =>
        /\ tpc[1] = "done"
        /\ tres[1].tag = "results"
        /\ \/ calls[1].stages = <<"syntax">> /\ ~tres[1].syntax
           \/ calls[1].stages = <<"syntax", "mx">> /\ tres[1].syntax /\ ~tres[1].mx_record
           \/ /\ calls[1].stages = <<"syntax", "mx", "smtp">>
              /\ tres[1].syntax /\ tres[1].mx_record
              /\ tres[1].smtp \in {"True", "False", "Inconclusive", "Error"}

\* C23 as stated: for non-empty first name, last name and domain the candidates
\* are pairwise distinct.
C23_Original ==
    (pc # "call" /\ NonEmptyInput) =>
        \A i, j \in DOMAIN email_patterns : i # j => email_patterns[i] # email_patterns[j]

\* C25: on every path the reports are in generation order: at every moment the
\* list of reports is as long as the number of candidates dealt with, its i-th
\* report holds the i-th candidate and the result of the i-th verification, and
\* the returned list is that list for all the candidates.
C25_ReportsInGenerationOrder ==
    NonEmptyInput =>
        /\ Len(verified_patterns) <= Len(email_patterns)
        /\ \A i \in DOMAIN verified_patterns :
              /\ verified_patterns[i].email = email_patterns[i]
              /\ tpc[i] \in {"done", "raised"}
              /\ tpc[i] = "done" => verified_patterns[i].verification = tres[i]
              /\ tpc[i] = "raised" => verified_patterns[i].verification.tag = "error"
        /\ pc = "returned" => (ret = verified_patterns /\ Len(ret) = Len(email_patterns))

\* the pool has returned the reports in order although the second task had its
\* result, an SMTP error, before the first one was collected
C25_Witness ==
    /\ pc = "returned"
    /\ Backend = "submit"
    /\ Len(ret) = 12
    /\ ret[2].verification.tag = "results"
    /\ ret[2].verification.smtp = "Error"
    /\ ret[1].verification.smtp = "True"

\* C26: every report of verify_email has mx_record only with syntax, an smtp
\* other than 'Not attempted' only with syntax and mx_record, and with syntax and
\* mx_record an smtp among True, False, 'Inconclusive', 'Error'.
C26_ReportShape ==
    \A t \in DOMAIN tres :
        tres[t].tag = "results" =>
            /\ tres[t].mx_record => tres[t].syntax
            /\ tres[t].smtp # "Not attempted" => (tres[t].syntax /\ tres[t].mx_record)
            /\ (tres[t].syntax /\ tres[t].mx_record) =>
                   tres[t].smtp \in {"True", "False", "Inconclusive", "Error"}
            /\ tres[t].smtp \in {"True", "False", "Inconclusive", "Error", "Not attempted"}

\* a call has returned with syntax and mx_record true and smtp 'Inconclusive'
C26_Witness ==
    /\ pc = "verify_email"
    /\ tpc[1] = "done"
    /\ tres[1].syntax /\ tres[1].mx_record
    /\ tres[1].smtp = "Inconclusive"

\* C27 as stated: every session a probe opened (its connect was answered) has
\* QUIT as its last command when the probe has returned.
C27_Original ==
    C5_SessionOpened => smtp_log[Len(smtp_log)].cmd = "quit"

C28_BlocksSeen(t) ==
    UNION {{[query |-> calls[t].requests[i].query, block |-> ResultBlocks(Answers(t)[i].body)[k]] :
               k \in DOMAIN ResultBlocks(Answers(t)[i].body)} :
           i \in {j \in DOMAIN Answers(t) :
                     Answers(t)[j].kind = "response" /\ Answers(t)[j].status = 200}}

\* C28: in every report of verify_email_brightdata that is not None, exact_match
\* is true exactly if exact_match_details is not empty; all entries carry the
\* same query_used, the last query sent; no two entries are equal; every entry
\* comes from a block, of a page received for that query, that holds the email
\* and none of the disclaimer phrases, and none from a block that holds one.
C28_MatchDetails ==
    \A t \in DOMAIN tres :
        (tres[t].tag = "brightdata" /\ tres[t].value # "None") =>
            LET d == tres[t].exact_match_details
            IN  /\ tres[t].exact_match <=> d # <<>>
                /\ \A i, j \in DOMAIN d : d[i].query_used = d[j].query_used
                /\ \A i \in DOMAIN d : d[i].query_used = QueriesSent(t)[Len(QueriesSent(t))]
                /\ \A i, j \in DOMAIN d : i # j => d[i] # d[j]
                /\ \A i \in DOMAIN d :
                      /\ \E s \in C28_BlocksSeen(t) :
                            /\ s.block.holds_email /\ ~s.block.disclaimer
                            /\ d[i] = MatchInfo(email_patterns[t], s.block, s.query)
                      /\ \A s \in C28_BlocksSeen(t) :
                            s.block.disclaimer => d[i].context # s.block.content

\* a call whose page held the same block twice has reported one entry for it
C28_Witness ==
    \E t \in DOMAIN tres :
        /\ tres[t].tag = "brightdata"
        /\ tres[t].value = "match"
        /\ Answers(t)[1].body = "match_twice"
        /\ Len(tres[t].exact_match_details) = 1

\* C24: a batch search that has ended has given one row per profile, in the order
\* of the list, and nothing else is in search_results; the row of a profile whose
\* search raised has email 'Error' and the exception text as source, and the
\* profiles after it have their rows too; after the k-th profile of N the progress
\* value is k/N, it never decreases during the run and is 1 at the end.
C24_OneRowPerProfile ==
    [][/\ upc = "searching" =>
              progress'.num * progress.den >= progress.num * progress'.den
       /\ clicked' = "search" =>
              /\ upc' \in {"searching", "blocked"} =>
                     /\ Len(search_results') < Len(selected_profiles')
                     /\ search_results' # <<>> =>
                            progress'.num * Len(selected_profiles') =
                                Len(search_results') * progress'.den
              /\ Len(search_log') = Len(search_results')
              /\ \A i \in DOMAIN search_results' :
                    /\ search_results'[i].name = selected_profiles'[i].name
                    /\ search_results'[i].company = selected_profiles'[i].company
                    /\ search_log'[i].kind = "raise" <=> search_results'[i].email = "Error"
                    /\ search_log'[i].kind = "raise" =>
                           search_results'[i].source = search_log'[i].text
              /\ upc' = "idle" =>
                     /\ Len(search_results') = Len(selected_profiles')
                     /\ progress'.num = progress'.den
      ]_vars

\* a batch search over two profiles has ended; the search of the first
\* profile raised and the second has its email
C24_Witness ==
    /\ clicked = "search"
    /\ upc = "idle"
    /\ Len(selected_profiles) = 2
    /\ search_results[1].email = "Error"
    /\ search_results[2].email = "ann@x.c"
    /\ progress = [num |-> 2, den |-> 2]

\* C29: selected_profiles never holds two profiles with the same name; every row
\* of search_results is the row of a profile in selected_profiles and there are
\* no more rows than profiles; right after 'Clear Batch' both lists are empty.
C29_SessionState ==
    /\ \A i, j \in DOMAIN selected_profiles :
          selected_profiles[i].name = selected_profiles[j].name => i = j
    /\ \A i \in DOMAIN search_results :
          \E j \in DOMAIN selected_profiles :
              /\ selected_profiles[j].name = search_results[i].name
              /\ selected_profiles[j].company = search_results[i].company
    /\ Len(search_results) <= Len(selected_profiles)
    /\ (clicked = "clear" /\ upc = "idle") =>
           (selected_profiles = <<>> /\ search_results = <<>>)

\* a profile was added after a batch search: two profiles, one row
C29_Witness ==
    /\ clicked = "add"
    /\ Len(selected_profiles) = 2
    /\ Len(search_results) = 1

\* C30 as stated: when run has returned, no temporary database file made during
\* it exists (none exists at all, as every earlier run has returned too), and
\* neither dashboard instance has decrypted its database more than once.
C30_Original ==
    rpc = "returned" =>
        /\ temp_files = {}
        /\ decrypts.linkedin <= 1
        /\ decrypts.lta <= 1

====
